---- MODULE Spec2Model ----
(***************************************************************************)
(* Model of the SIDEWAYS drifting game: the drift scoring state machine    *)
(* (utils/ClippingSystem), and the replay / ghost recorder of GameCanvas.  *)
(*                                                                         *)
(* Numbers are fixed point.  The program computes in IEEE doubles; the     *)
(* model keeps every quantity as an integer number of small units and      *)
(* rounds each product towards zero:                                       *)
(*   speeds, positions, angles ........ thousandths (4.0 is 4000)          *)
(*   scores ........................... thousandths of a point             *)
(*   multipliers ...................... tenths (2.5 is 25)                 *)
(*   deltaTime, comboTimer, duration .. thirds of a millisecond, so that   *)
(*                                      1/60 s is exactly 50               *)
(*   replay playhead and speed ........ halves of a frame (0.5 is 1)       *)
(***************************************************************************)
EXTENDS Integers, Sequences, FiniteSets, TLC

VARIABLES
    params,         \* GameParams prop (physics part)
    inputState,     \* shared InputState
    isReplaying,    \* isReplaying prop, as seen by the effects and the loop
    car,            \* carRef.current
    replayData,     \* replayDataRef.current
    replayState,    \* replayStateRef.current
    currentRun,     \* currentRunRef.current
    ghostRun,       \* ghostRunRef.current
    driftSystem,    \* driftSystemRef.current
    scoring,        \* DriftScoring: state, comboTimer, lastDriftDir
    sched,          \* the animation loop: its clock reading and tick reference
    heap,           \* the objects behind the refs, where a specification tracks them
    loads,          \* the runs of the initSystem effect, where a specification tracks them
    last,           \* the operation performed by the latest step, with its inputs
    hist            \* history: live ticks run, snapshots and scores seen

vars == <<params, inputState, isReplaying, car, replayData, replayState,
          currentRun, ghostRun, driftSystem, scoring, sched, heap, loads,
          last, hist>>

----------------------------------------------------------------------------
(* Arithmetic helpers *)

Abs(x) == IF x < 0 THEN -x ELSE x

Sign(x) == IF x > 0 THEN 1 ELSE IF x < 0 THEN -1 ELSE 0

Max(a, b) == IF a >= b THEN a ELSE b

Min(a, b) == IF a <= b THEN a ELSE b

\* floor(a * b / c) for c > 0, computed without leaving 32 bits
MulDiv(a, b, c) == (a \div c) * b + ((a % c) * b) \div c

\* a * b / c rounded towards zero, for c > 0
SMulDiv(a, b, c) == Sign(a) * Sign(b) * MulDiv(Abs(a), Abs(b), c)

\* Math.floor on a score kept in thousandths
Floor(x) == (x \div 1000) * 1000

\* x * (180 / Math.PI), with 180/pi taken as 57.296
RadToDeg(x) == MulDiv(x, 57296, 1000)

----------------------------------------------------------------------------
(* DriftScoring configuration: the defaults of the constructor *)

minDriftAngle == 15000

minSpeed == 3000

basePointsPerSecond == 500

comboDecayTime == 6000

comboBonus == 2

chainBonus == 500

----------------------------------------------------------------------------
(* DriftScoring *)

InitScoring ==
    [ isDrifting |-> FALSE, currentScore |-> 0, totalScore |-> 0,
      multiplier |-> 10, combo |-> 0, duration |-> 0,
      isInClippingZone |-> FALSE, comboTimer |-> 0, lastDriftDir |-> 0 ]

startDrift(s) ==
    [s EXCEPT !.isDrifting = TRUE, !.currentScore = 0, !.duration = 0,
              !.combo = 1, !.comboTimer = comboDecayTime]

\* endDrift that leaves the session score in place
endDrift_keepsScore(s, bank) ==
    [s EXCEPT !.totalScore = IF bank THEN @ + Floor(s.currentScore) ELSE @,
              !.combo = 0, !.multiplier = 10,
              !.isDrifting = FALSE, !.lastDriftDir = 0]

\* endDrift that wipes the banked total when the drift fails
endDrift_failClearsTotal(s, bank) ==
    [s EXCEPT !.totalScore = IF bank THEN @ + Floor(s.currentScore) ELSE 0,
              !.combo = 0, !.currentScore = 0, !.multiplier = 10,
              !.isDrifting = FALSE, !.lastDriftDir = 0]

\* endDrift that banks whatever its argument says
endDrift_alwaysBanks(s, bank) ==
    [s EXCEPT !.totalScore = @ + Floor(s.currentScore),
              !.combo = 0, !.currentScore = 0, !.multiplier = 10,
              !.isDrifting = FALSE, !.lastDriftDir = 0]

\* endDrift that banks the session score unrounded
endDrift_banksFraction(s, bank) ==
    [s EXCEPT !.totalScore = IF bank THEN @ + s.currentScore ELSE @,
              !.combo = 0, !.currentScore = 0, !.multiplier = 10,
              !.isDrifting = FALSE, !.lastDriftDir = 0]

endDrift(s, bank) ==
    [s EXCEPT !.totalScore = IF bank THEN @ + Floor(s.currentScore) ELSE @,
              !.combo = 0, !.currentScore = 0, !.multiplier = 10,
              !.isDrifting = FALSE, !.lastDriftDir = 0]

\* resetTotal that leaves the combo counter alone
resetTotal_keepsCombo(s) ==
    [s EXCEPT !.totalScore = 0, !.currentScore = 0,
              !.isDrifting = FALSE, !.lastDriftDir = 0]

resetTotal(s) ==
    [s EXCEPT !.totalScore = 0, !.currentScore = 0, !.combo = 0,
              !.isDrifting = FALSE, !.lastDriftDir = 0]

\* angleDeg of update(): the car's driftAngle run through the radian-to-degree
\* conversion
angleDegOf(driftAngle) == Abs(RadToDeg(driftAngle))

\* pointsThisFrame of update(), in thousandths of a point
pointsThisFrame(mult, combo, angleDeg, deltaTime) ==
    LET comboMultiplier == 10 + (combo - 1) * comboBonus
        angleBonus == Max(1000, angleDeg \div 30)
        perSecond == MulDiv(basePointsPerSecond * mult * comboMultiplier * 10,
                            angleBonus, 1000)
    IN  MulDiv(perSecond, deltaTime, 3000)

\* update that pays the chain bonus for the combo before the increment
update_bonusBeforeIncrement(s, speed, driftAngle, clippingMultiplier, deltaTime) ==
    LET s0 == [s EXCEPT !.isInClippingZone = clippingMultiplier > 10]
        angleDeg == angleDegOf(driftAngle)
        currentDir == Sign(driftAngle)
    IN
    IF Abs(speed) < minSpeed
    THEN IF s0.isDrifting \/ s0.currentScore > 0 THEN endDrift(s0, FALSE) ELSE s0
    ELSE IF angleDeg >= minDriftAngle
    THEN LET s1 == IF ~s0.isDrifting
                   THEN [startDrift(s0) EXCEPT !.lastDriftDir = currentDir]
                   ELSE s0
             chain == s1.lastDriftDir # 0 /\ currentDir # 0
                      /\ currentDir # s1.lastDriftDir
             s2 == IF chain
                   THEN [s1 EXCEPT !.combo = @ + 1, !.lastDriftDir = currentDir,
                                   !.currentScore =
                                       @ + chainBonus * 1000 * s1.combo]
                   ELSE s1
             s3 == [s2 EXCEPT !.multiplier = clippingMultiplier]
         IN  [s3 EXCEPT !.currentScore =
                            @ + pointsThisFrame(s3.multiplier, s3.combo,
                                                angleDeg, deltaTime),
                        !.duration = @ + deltaTime,
                        !.comboTimer = comboDecayTime]
    ELSE IF s0.isDrifting
    THEN LET s1 == [s0 EXCEPT !.comboTimer = @ - deltaTime]
         IN  IF s1.comboTimer <= 0 THEN endDrift(s1, TRUE) ELSE s1
    ELSE s0

update(s, speed, driftAngle, clippingMultiplier, deltaTime) ==
    LET s0 == [s EXCEPT !.isInClippingZone = clippingMultiplier > 10]
        angleDeg == angleDegOf(driftAngle)
        currentDir == Sign(driftAngle)
    IN
    IF Abs(speed) < minSpeed
    THEN IF s0.isDrifting \/ s0.currentScore > 0 THEN endDrift(s0, FALSE) ELSE s0
    ELSE IF angleDeg >= minDriftAngle
    THEN LET s1 == IF ~s0.isDrifting
                   THEN [startDrift(s0) EXCEPT !.lastDriftDir = currentDir]
                   ELSE s0
             chain == s1.lastDriftDir # 0 /\ currentDir # 0
                      /\ currentDir # s1.lastDriftDir
             s2 == IF chain
                   THEN [s1 EXCEPT !.combo = @ + 1, !.lastDriftDir = currentDir,
                                   !.currentScore =
                                       @ + chainBonus * 1000 * (s1.combo + 1)]
                   ELSE s1
             s3 == [s2 EXCEPT !.multiplier = clippingMultiplier]
         IN  [s3 EXCEPT !.currentScore =
                            @ + pointsThisFrame(s3.multiplier, s3.combo,
                                                angleDeg, deltaTime),
                        !.duration = @ + deltaTime,
                        !.comboTimer = comboDecayTime]
    ELSE IF s0.isDrifting
    THEN LET s1 == [s0 EXCEPT !.comboTimer = @ - deltaTime]
         IN  IF s1.comboTimer <= 0 THEN endDrift(s1, TRUE) ELSE s1
    ELSE s0

----------------------------------------------------------------------------
(* Game parameters and the world *)

DEFAULT_PARAMS ==
    [ maxSpeed |-> 5000, maxReverseSpeed |-> -4000,
      accelerationFactor |-> 100, decelerationFactor |-> 100,
      driftFactor |-> 1450, turnFactor |-> 200, oversteer |-> 1200,
      eBrakeDecay |-> 995, zoom |-> 400, carScale |-> 1000 ]

\* DEFAULT_PARAMS with the Acceleration slider at its maximum of 1.0
FAST_PARAMS == [DEFAULT_PARAMS EXCEPT !.accelerationFactor = 1000]

\* DEFAULT_PARAMS with the Turn Speed slider at its maximum of 0.5
QUICK_TURN_PARAMS == [DEFAULT_PARAMS EXCEPT !.turnFactor = 500]

REFERENCE_WIDTH == 390

\* window.innerWidth and window.innerHeight, in CSS pixels
Viewport == [innerWidth |-> 390, innerHeight |-> 780]

\* effectiveWidth / effectiveHeight of render(): the viewport divided by
\* params.zoom * scaleFactor, scaleFactor being innerWidth / REFERENCE_WIDTH
effectiveWidth(p) == (REFERENCE_WIDTH * 1000000) \div p.zoom

effectiveHeight(p) ==
    (((Viewport.innerHeight * REFERENCE_WIDTH) \div Viewport.innerWidth)
        * 1000000) \div p.zoom

REPLAY_MAX_FRAMES == 1800

FPS == 60

----------------------------------------------------------------------------
(* Trigonometry: Math.sin / Math.cos of an angle given in thousandths of a  *)
(* degree, as thousandths, by Bhaskara's rational approximation on tenths   *)
(* of a degree                                                              *)

SinTenths(t) ==
    LET h == t % 1800
        q == h * (1800 - h)
        v == (400 * q) \div ((4050000 - q) \div 10)
    IN  IF t % 3600 < 1800 THEN v ELSE -v

Sin(a) == SinTenths((a % 360000) \div 100)

Cos(a) == SinTenths((((a + 90000) % 360000)) \div 100)

----------------------------------------------------------------------------
(* Vehicle state and the live branch of updatePhysics *)

InitCar(p) ==
    [ xPos |-> effectiveWidth(p) \div 2, yPos |-> effectiveHeight(p) \div 2,
      xSpeed |-> 0, ySpeed |-> 0, speed |-> 0,
      driftAngle |-> 0, angle |-> 0, angularVelocity |-> 0,
      isTurning |-> FALSE, isReversing |-> FALSE,
      width |-> 25 * p.carScale, height |-> 50 * p.carScale ]

NoInput ==
    [up |-> FALSE, down |-> FALSE, left |-> FALSE, right |-> FALSE, eBrake |-> FALSE]

\* 1. Acceleration / Braking
accelerate(c, inp, p) ==
    LET throttle == inp.up /\ ~inp.eBrake
        s1 == IF throttle /\ c.speed < p.maxSpeed
              THEN c.speed + p.accelerationFactor ELSE c.speed
        s2 == IF inp.down /\ s1 > p.maxReverseSpeed
              THEN s1 - p.decelerationFactor ELSE s1
    IN  [c EXCEPT !.speed = s2]

\* the amount one held steering key adds to or takes from angularVelocity
turnStep(c, inp, p) ==
    LET dir == IF inp.up THEN 1 ELSE IF c.speed > 0 THEN 1 ELSE -1
        authority == IF inp.up THEN 1000
                     ELSE SMulDiv(c.speed * 2, 1000, p.maxSpeed)
    IN  SMulDiv(p.turnFactor, authority, 1000) * dir

\* 2. Turning
turn(c, inp, p) ==
    LET isMoving == Abs(c.speed) > 100
        c1 == IF inp.left /\ isMoving
              THEN [c EXCEPT !.isTurning = TRUE,
                             !.angularVelocity = @ - turnStep(c, inp, p)]
              ELSE c
    IN  IF inp.right /\ isMoving
        THEN [c1 EXCEPT !.isTurning = TRUE,
                        !.angularVelocity = @ + turnStep(c1, inp, p)]
        ELSE c1

\* drift physics without the angular damping
drift_noAngularDamping(c, p) ==
    LET rev == c.speed < 0
        w == c.angularVelocity
        d1 == IF ~rev
              THEN c.driftAngle
                     + SMulDiv(SMulDiv(p.driftFactor, w, 1000), p.oversteer, 1000)
              ELSE c.driftAngle
    IN  [c EXCEPT !.isReversing = rev, !.angularVelocity = w,
                  !.driftAngle = SMulDiv(d1, 94, 100), !.angle = @ + w]

\* 3. Drift physics: angular damping, drift build-up, drift damping, rotation
drift(c, p) ==
    LET rev == c.speed < 0
        w == SMulDiv(c.angularVelocity, 94, 100)
        d1 == IF ~rev
              THEN c.driftAngle
                     + SMulDiv(SMulDiv(p.driftFactor, w, 1000), p.oversteer, 1000)
              ELSE c.driftAngle
    IN  [c EXCEPT !.isReversing = rev, !.angularVelocity = w,
                  !.driftAngle = SMulDiv(d1, 94, 100), !.angle = @ + w]

\* friction without the drag on a car that is not drifting
friction_noDrag(c, inp, p) ==
    LET lateralFriction == IF inp.eBrake THEN 150 ELSE 1000
        bleed == SMulDiv(SMulDiv(SMulDiv(Abs(c.driftAngle), c.speed, 1000),
                                 1, 1000),
                         lateralFriction, 1000)
    IN  [c EXCEPT !.speed = c.speed - (IF c.isReversing THEN -1 ELSE 1) * bleed]

\* Friction
friction(c, inp, p) ==
    LET drag == IF inp.eBrake THEN p.eBrakeDecay ELSE 980
        lateralFriction == IF inp.eBrake THEN 150 ELSE 1000
        bleed == SMulDiv(SMulDiv(SMulDiv(Abs(c.driftAngle), c.speed, 1000),
                                 1, 1000),
                         lateralFriction, 1000)
    IN  [c EXCEPT !.speed = SMulDiv(c.speed, drag, 1000)
                             - (IF c.isReversing THEN -1 ELSE 1) * bleed]

\* Velocity vectors and position
move(c, inp) ==
    LET turnDrag == IF c.isTurning /\ ~inp.eBrake THEN 940 ELSE 1000
        heading == c.angle - c.driftAngle
        xs == SMulDiv(SMulDiv(Sin(heading), c.speed, 1000), turnDrag, 1000)
        ys == SMulDiv(SMulDiv(Cos(heading), c.speed, 1000), turnDrag, 1000)
    IN  [c EXCEPT !.xSpeed = xs, !.ySpeed = ys,
                  !.xPos = @ + xs, !.yPos = @ - ys]

\* bounds handling that holds the car at the far edge instead of wrapping
wrap_stopsAtEdge(c, mapW, mapH) ==
    [c EXCEPT !.xPos = IF @ > mapW THEN mapW ELSE IF @ < 0 THEN mapW ELSE @,
              !.yPos = IF @ > mapH THEN mapH ELSE IF @ < 0 THEN mapH ELSE @]

\* 5. Bounds wrapping
wrap(c, mapW, mapH) ==
    [c EXCEPT !.xPos = IF @ > mapW THEN 0 ELSE IF @ < 0 THEN mapW ELSE @,
              !.yPos = IF @ > mapH THEN 0 ELSE IF @ < 0 THEN mapH ELSE @]

\* steps 1 to 4 of the live branch: the car before the bounds wrapping
advanceCar(c, inp, p) ==
    move(friction(drift(turn(accelerate(c, inp, p), inp, p), p), inp, p), inp)

\* the live branch of updatePhysics up to the bounds wrapping
integrate(c, inp, p) ==
    wrap(advanceCar(c, inp, p), effectiveWidth(p), effectiveHeight(p))

\* the car states of the n live ticks that follow state c with the input
\* vector inp held (the run is split in halves to keep the evaluation shallow)
RECURSIVE heldRun(_, _, _, _)
heldRun(c, inp, p, n) ==
    IF n = 0 THEN << >>
    ELSE IF n = 1 THEN << integrate(c, inp, p) >>
    ELSE LET h == n \div 2
             first == heldRun(c, inp, p, h)
         IN  first \o heldRun(first[h], inp, p, n - h)

----------------------------------------------------------------------------
(* ClippingZoneDetector.  Image coordinates are thousandths of a pixel; a   *)
(* detector is [trackImage, imageData, image]: whether onload ran, whether  *)
(* the pixels were cached, and which of the TrackImages was decoded.        *)

\* the defaults of the constructor
clippingColor == [r |-> 255, g |-> 255, b |-> 255]

colorTolerance == 50

pointMultiplier == 25

Asphalt == [r |-> 60, g |-> 60, b |-> 60]

\* a white kerb two pixels wide down the middle of the asphalt
KerbPixel(px, py) == IF px \in {18, 19} THEN clippingColor ELSE Asphalt

\* columns of white, of a grey just inside the tolerance, of a white with
\* one channel just outside it, and of asphalt
TonePixel(px, py) ==
    CASE px % 4 = 0 -> clippingColor
      [] px % 4 = 1 -> [r |-> 205, g |-> 205, b |-> 205]
      [] px % 4 = 2 -> [r |-> 255, g |-> 204, b |-> 255]
      [] OTHER      -> Asphalt

\* white all over
WhitePixel(px, py) == clippingColor

\* pixel (px, py) of the kind-th picture
Pixel(kind, px, py) ==
    CASE kind = 1 -> KerbPixel(px, py)
      [] kind = 2 -> TonePixel(px, py)
      [] OTHER    -> WhitePixel(px, py)

\* a track image 39 pixels wide and 78 high, its pixels row by row
Picture(kind) ==
    [ width |-> 39, height |-> 78,
      data |-> [i \in 1..(39 * 78) |-> Pixel(kind, (i - 1) % 39, (i - 1) \div 39)] ]

TrackImages == << Picture(1), Picture(2), Picture(3) >>

NoDetector == [trackImage |-> FALSE, imageData |-> FALSE, image |-> 0]

\* loadTrack that rejects when the image fails to load
loadTrack_rejectsOnError(outcome, k) ==
    CASE outcome = "decoded" ->
             [resolved |-> TRUE,
              detector |-> [trackImage |-> TRUE, imageData |-> TRUE, image |-> k]]
      [] outcome = "noContext" ->
             [resolved |-> TRUE,
              detector |-> [NoDetector EXCEPT !.trackImage = TRUE]]
      [] OTHER ->
             [resolved |-> FALSE, detector |-> NoDetector]

\* loadTrack: onload with the pixels cached ("decoded"), onload without a 2d
\* context ("noContext"), or onerror ("error"); the promise resolves in all
loadTrack(outcome, k) ==
    CASE outcome = "decoded" ->
             [resolved |-> TRUE,
              detector |-> [trackImage |-> TRUE, imageData |-> TRUE, image |-> k]]
      [] outcome = "noContext" ->
             [resolved |-> TRUE,
              detector |-> [NoDetector EXCEPT !.trackImage = TRUE]]
      [] OTHER ->
             [resolved |-> TRUE, detector |-> NoDetector]

\* getPixel: << pixel >>, or << >> for null
getPixel(det, x, y) ==
    IF ~det.imageData \/ ~det.trackImage THEN << >>
    ELSE LET img == TrackImages[det.image]
             px == x \div 1000
             py == y \div 1000
         IN  IF px < 0 \/ py < 0 \/ px >= img.width \/ py >= img.height
             THEN << >>
             ELSE << img.data[py * img.width + px + 1] >>

isClippingZoneColor(p) ==
    /\ Abs(p.r - clippingColor.r) <= colorTolerance
    /\ Abs(p.g - clippingColor.g) <= colorTolerance
    /\ Abs(p.b - clippingColor.b) <= colorTolerance

\* imgScaleX / imgScaleY: image pixels per unit of track, in thousandths
imgScale(pixels, track) == (pixels * 1000000) \div track

\* the seven offsets of getCarCheckPoints, for a car imgW by imgH
offsets(imgW, imgH) ==
    LET w == imgW \div 2
        h == imgH \div 2
    IN  << [x |-> -w, y |-> h], [x |-> 0, y |-> h], [x |-> w, y |-> h],
           [x |-> -w, y |-> -h], [x |-> w, y |-> -h],
           [x |-> w, y |-> 0], [x |-> -w, y |-> 0] >>

getCarCheckPoints(det, centerX, centerY, carWidth, carHeight, angle, trackWidth, trackHeight) ==
    LET img == TrackImages[det.image]
        imgW == MulDiv(carWidth, imgScale(img.width, trackWidth), 1000)
        imgH == MulDiv(carHeight, imgScale(img.height, trackHeight), 1000)
        cos == Cos(angle)
        sin == Sin(angle)
        off == offsets(imgW, imgH)
    IN  [ i \in 1..Len(off) |->
            [ x |-> centerX + SMulDiv(off[i].x, cos, 1000)
                            - SMulDiv(off[i].y, sin, 1000),
              y |-> centerY + SMulDiv(off[i].x, sin, 1000)
                            + SMulDiv(off[i].y, cos, 1000) ] ]

\* the loop of checkClippingZone over the first n check points
RECURSIVE sample(_, _, _)
sample(det, points, n) ==
    IF n = 0 THEN [clippingHits |-> 0, totalChecks |-> 0]
    ELSE LET acc == sample(det, points, n - 1)
             pixel == getPixel(det, points[n].x, points[n].y)
         IN  IF pixel = << >> THEN acc
             ELSE [clippingHits |-> acc.clippingHits
                                      + (IF isClippingZoneColor(pixel[1])
                                         THEN 1 ELSE 0),
                   totalChecks |-> acc.totalChecks + 1]

\* checkClippingZone that counts the points outside the image as checks
checkClippingZone_countsOutside(det, carState, trackWidth, trackHeight) ==
    IF ~det.trackImage \/ ~det.imageData THEN 10
    ELSE LET img == TrackImages[det.image]
             imageX == SMulDiv(carState.xPos, imgScale(img.width, trackWidth), 1000)
             imageY == SMulDiv(carState.yPos, imgScale(img.height, trackHeight), 1000)
             checkPoints == getCarCheckPoints(det, imageX, imageY,
                                carState.width, carState.height,
                                carState.angle, trackWidth, trackHeight)
             n == sample(det, checkPoints, Len(checkPoints))
         IN  IF n.clippingHits * 10 >= 3 * Len(checkPoints)
             THEN pointMultiplier ELSE 10

checkClippingZone(det, carState, trackWidth, trackHeight) ==
    IF ~det.trackImage \/ ~det.imageData THEN 10
    ELSE LET img == TrackImages[det.image]
             imageX == SMulDiv(carState.xPos, imgScale(img.width, trackWidth), 1000)
             imageY == SMulDiv(carState.yPos, imgScale(img.height, trackHeight), 1000)
             checkPoints == getCarCheckPoints(det, imageX, imageY,
                                carState.width, carState.height,
                                carState.angle, trackWidth, trackHeight)
             n == sample(det, checkPoints, Len(checkPoints))
         IN  IF n.totalChecks > 0 /\ n.clippingHits * 10 >= 3 * n.totalChecks
             THEN pointMultiplier ELSE 10

----------------------------------------------------------------------------
(* GameCanvas state *)

NoSystem == [installed |-> FALSE, detector |-> NoDetector, lastState |-> FALSE]

NoGhost == [stored |-> FALSE, frames |-> << >>, totalScore |-> 0]

InitReplayState ==
    [index |-> 0, isPlaying |-> TRUE, speed |-> 2, framesSinceLastUIUpdate |-> 0]

\* the loop effect's closure: then and the latest performance.now() reading,
\* in thirds of a millisecond; callbacks counts the invocations of loop
InitSched == [now |-> 0, then |-> 0, callbacks |-> 0]

\* no effect runs tracked
NoLoads == [runs |-> << >>, current |-> 0]

\* no objects tracked
NoHeap ==
    [objects |-> << >>, carRef |-> 0, replayDataRef |-> 0,
     currentRunRef |-> 0, ghostRunRef |-> 0]

NoOp ==
    [op |-> "none", speed |-> 0, driftAngle |-> 0, changed |-> FALSE,
     multiplier |-> 0]

InitHist ==
    [ticks |-> 0, runTicks |-> 0, second |-> << >>, finished |-> << >>,
     held |-> {}]

GhostFrame(c) ==
    [x |-> c.xPos, y |-> c.yPos, angle |-> c.angle, driftAngle |-> c.driftAngle]

\* record that drops the newest entry when over capacity
record_dropsNewest(buf, e, cap) ==
    LET b == Append(buf, e) IN IF Len(b) > cap THEN SubSeq(b, 1, cap) ELSE b

\* push, then shift while over capacity
record(buf, e, cap) ==
    LET b == Append(buf, e) IN IF Len(b) > cap THEN Tail(b) ELSE b

InitWith(p) ==
    /\ params = p
    /\ inputState = NoInput
    /\ isReplaying = FALSE
    /\ car = InitCar(p)
    /\ replayData = << >>
    /\ replayState = InitReplayState
    /\ currentRun = << >>
    /\ ghostRun = NoGhost
    /\ driftSystem = NoSystem
    /\ scoring = InitScoring
    /\ sched = InitSched
    /\ heap = NoHeap
    /\ loads = NoLoads
    /\ last = NoOp
    /\ hist = InitHist

----------------------------------------------------------------------------
(* GameCanvas operations *)

\* the ways a track image can load; "absent" is createDriftSystem('')
LoadOutcomes == {"absent", "error", "noContext", "decoded"}

\* createDriftSystem: the detector after the awaited loadTrack, if any, and
\* whether the system object was returned
createDriftSystem(outcome, k) ==
    IF outcome = "absent"
    THEN [resolved |-> TRUE, detector |-> NoDetector]
    ELSE loadTrack(outcome, k)

\* initSystem: createDriftSystem has settled; if it resolved, the system is
\* installed with a fresh DriftScoring
InitSystemDone(outcome, k) ==
    /\ ~driftSystem.installed
    /\ LET sys == createDriftSystem(outcome, k)
       IN  IF sys.resolved
           THEN /\ driftSystem' = [installed |-> TRUE, detector |-> sys.detector,
                                   lastState |-> FALSE]
                /\ scoring' = InitScoring
           ELSE UNCHANGED <<driftSystem, scoring>>
    /\ last' = [NoOp EXCEPT !.op = "initSystem"]
    /\ UNCHANGED <<params, inputState, isReplaying, car, replayData,
                   replayState, currentRun, ghostRun, sched, heap, loads,
                   hist>>

\* the argument initSystem passes to createDriftSystem: the track url (the
\* number of a track image), or 0 for the empty string when there is no url
\* or a tile map is present
urlOf(source) == IF source.trackUrl # 0 /\ ~source.mapData THEN source.trackUrl ELSE 0

\* a run of the initSystem effect that has called createDriftSystem
NewRun(source) ==
    [source |-> source, isCancelled |-> FALSE, outcome |-> "pending"]

\* the effect's dependencies [assets.trackUrl, mapData] change: the cleanup of
\* the previous run sets its isCancelled, then the effect runs again
SourceChange(source) ==
    /\ Len(loads.runs) > 0
    /\ loads.runs[Len(loads.runs)].source # source
    /\ loads' = [loads EXCEPT !.runs =
                     Append([@ EXCEPT ![Len(@)].isCancelled = TRUE],
                            NewRun(source))]
    /\ last' = [NoOp EXCEPT !.op = "sourceChange"]
    /\ UNCHANGED <<params, inputState, isReplaying, car, replayData,
                   replayState, currentRun, ghostRun, driftSystem, scoring,
                   sched, heap, hist>>

\* a settled createDriftSystem installs its system whatever isCancelled says
keeps_whenCancelled(run, sys) == sys.resolved

\* if (!isCancelled) driftSystemRef.current = sys
keeps(run, sys) == sys.resolved /\ ~run.isCancelled

\* the awaited createDriftSystem of run i settles with the given outcome;
\* loads.current is the run whose system driftSystemRef holds
LoadSettles(i, outcome) ==
    /\ i \in 1..Len(loads.runs)
    /\ loads.runs[i].outcome = "pending"
    /\ (outcome = "absent") = (urlOf(loads.runs[i].source) = 0)
    /\ LET sys == createDriftSystem(outcome, urlOf(loads.runs[i].source))
           kept == keeps(loads.runs[i], sys)
       IN  /\ IF kept
              THEN /\ driftSystem' = [installed |-> TRUE,
                                      detector |-> sys.detector,
                                      lastState |-> FALSE]
                   /\ scoring' = InitScoring
              ELSE UNCHANGED <<driftSystem, scoring>>
           /\ loads' = [loads EXCEPT !.runs[i].outcome = outcome,
                                     !.current = IF kept THEN i ELSE @]
           /\ last' = [NoOp EXCEPT !.op = "initSystem", !.changed = kept]
    /\ UNCHANGED <<params, inputState, isReplaying, car, replayData,
                   replayState, currentRun, ghostRun, sched, heap, hist>>

\* handleKey: keydown / keyup of a control key
HandleKey(key, isDown) ==
    /\ ~isReplaying
    /\ inputState' = [inputState EXCEPT ![key] = isDown]
    /\ last' = [NoOp EXCEPT !.op = "key"]
    /\ UNCHANGED <<params, isReplaying, car, replayData, replayState,
                   currentRun, ghostRun, driftSystem, scoring, sched, heap, loads,
                   hist>>

\* a keydown / keyup on the window: the key goes down or up (hist.held is
\* the set of control keys that are physically down) and the listener runs
\* handleKey, which returns at once while replaying
KeyEvent(key, isDown) ==
    /\ isDown = (key \notin hist.held)
    /\ hist' = [hist EXCEPT !.held = IF isDown THEN @ \cup {key} ELSE @ \ {key}]
    /\ inputState' = IF isReplaying THEN inputState
                      ELSE [inputState EXCEPT ![key] = isDown]
    /\ last' = [NoOp EXCEPT !.op = "key"]
    /\ UNCHANGED <<params, isReplaying, car, replayData, replayState,
                   currentRun, ghostRun, driftSystem, scoring, sched, heap, loads>>

\* updatePhysics, live branch, reading the input vector inp
LiveStep(inp, cap, fps) ==
    /\ ~isReplaying
    /\ LET c == integrate(car, inp, params)
           m == checkClippingZone(driftSystem.detector, c,
                                  effectiveWidth(params), effectiveHeight(params))
       IN
       /\ car' = c
       /\ IF driftSystem.installed
          THEN /\ scoring' = update(scoring, c.speed, c.driftAngle, m,
                                    3000 \div fps)
               /\ driftSystem' = [driftSystem EXCEPT !.lastState = TRUE]
          ELSE UNCHANGED <<scoring, driftSystem>>
       /\ replayData' = record(replayData, c, cap)
       /\ currentRun' = record(currentRun, GhostFrame(c), cap)
       /\ last' = [NoOp EXCEPT !.op = "tick", !.speed = c.speed,
                                !.driftAngle = c.driftAngle,
                                !.multiplier = IF driftSystem.installed
                                               THEN m ELSE 0]
       /\ hist' = [hist EXCEPT !.ticks = @ + 1, !.runTicks = @ + 1,
                               !.second = IF hist.ticks = 1 THEN c ELSE @]
    /\ UNCHANGED <<params, isReplaying, replayState, ghostRun>>

LiveTick(cap, fps) ==
    /\ LiveStep(inputState, cap, fps)
    /\ UNCHANGED <<inputState, sched, heap, loads>>

\* the key events that bring the input vector to inp, then a live tick
KeysThenTick(inp, cap, fps) ==
    /\ inputState' = inp
    /\ LiveStep(inp, cap, fps)
    /\ UNCHANGED <<sched, heap, loads>>

\* playhead advance that loops only after passing the end
advance_loopsLate(rs, totalFrames) ==
    IF rs.isPlaying
    THEN IF rs.index + rs.speed > 2 * totalFrames THEN 0 ELSE rs.index + rs.speed
    ELSE rs.index

\* the playhead after one replay tick
advance(rs, totalFrames) ==
    IF rs.isPlaying
    THEN IF rs.index + rs.speed >= 2 * totalFrames THEN 0 ELSE rs.index + rs.speed
    ELSE rs.index

\* replay branch that goes on to score and record the frame it shows
ReplayStep_recordsFrame ==
    /\ isReplaying
    /\ LET totalFrames == Len(replayData)
           index == advance(replayState, totalFrames)
           frameIndex == index \div 2
           n == replayState.framesSinceLastUIUpdate + 1
       IN IF totalFrames = 0
          THEN UNCHANGED <<car, replayState, replayData, currentRun>>
          ELSE /\ car' = IF frameIndex >= 0 /\ frameIndex < totalFrames
                         THEN replayData[frameIndex + 1] ELSE car
               /\ replayState' =
                      [replayState EXCEPT !.index = index,
                           !.framesSinceLastUIUpdate = IF n > 5 THEN 0 ELSE n]
               /\ replayData' = record(replayData, car', REPLAY_MAX_FRAMES)
               /\ currentRun' = record(currentRun, GhostFrame(car'),
                                       REPLAY_MAX_FRAMES)
    /\ last' = [NoOp EXCEPT !.op = "replayTick"]
    /\ UNCHANGED <<params, inputState, isReplaying,
                   ghostRun, driftSystem, scoring, hist>>

\* updatePhysics, replay branch
ReplayStep ==
    /\ isReplaying
    /\ LET totalFrames == Len(replayData)
           index == advance(replayState, totalFrames)
           frameIndex == index \div 2
           n == replayState.framesSinceLastUIUpdate + 1
       IN IF totalFrames = 0
          THEN UNCHANGED <<car, replayState>>
          ELSE /\ car' = IF frameIndex >= 0 /\ frameIndex < totalFrames
                         THEN replayData[frameIndex + 1] ELSE car
               /\ replayState' =
                      [replayState EXCEPT !.index = index,
                           !.framesSinceLastUIUpdate = IF n > 5 THEN 0 ELSE n]
    /\ last' = [NoOp EXCEPT !.op = "replayTick"]
    /\ UNCHANGED <<params, inputState, isReplaying, replayData, currentRun,
                   ghostRun, driftSystem, scoring, hist>>

ReplayTick ==
    /\ ReplayStep
    /\ UNCHANGED <<sched, heap, loads>>

\* 1000 / PHYSICS.FPS, in thirds of a millisecond
interval(fps) == 3000 \div fps

\* tick reference that drops the remainder
nextThen_dropsRemainder(now, then, fps) ==
    LET delta == now - then
    IN  IF delta > interval(fps) THEN now ELSE then

\* tick reference after a callback at time now
nextThen(now, then, fps) ==
    LET delta == now - then
    IN  IF delta > interval(fps) THEN now - (delta % interval(fps)) ELSE then

\* loop: the requestAnimationFrame callback, gap after the previous one
Loop(gap, cap, fps) ==
    LET now == sched.now + gap
        delta == now - sched.then
    IN  /\ sched' = [now |-> now, then |-> nextThen(now, sched.then, fps),
                     callbacks |-> sched.callbacks + 1]
        /\ UNCHANGED <<heap, loads>>
        /\ IF delta > interval(fps)
           THEN \/ LiveStep(inputState, cap, fps) /\ UNCHANGED inputState
                \/ ReplayStep
           ELSE /\ last' = [NoOp EXCEPT !.op = "idle"]
                /\ UNCHANGED <<params, inputState, isReplaying, car,
                               replayData, replayState, currentRun, ghostRun,
                               driftSystem, scoring, hist>>

\* entering replay without resetting the playback speed and pause flag
EnterReplay_keepsSpeed ==
    /\ ~isReplaying
    /\ isReplaying' = TRUE
    /\ replayState' = [replayState EXCEPT !.index = 0]
    /\ last' = [NoOp EXCEPT !.op = "enterReplay",
                             !.changed = \/ replayState.index # 0
                                         \/ replayState.speed # 2
                                         \/ ~replayState.isPlaying]
    /\ sched' = [sched EXCEPT !.then = sched.now]
    /\ UNCHANGED <<heap, loads>>
    /\ UNCHANGED <<params, inputState, car, replayData, currentRun, ghostRun,
                   driftSystem, scoring, hist>>

\* replay transition effect, isReplaying turned true; the loop effect is set
\* up again with the same dependency and takes a new tick reference
EnterReplay ==
    /\ ~isReplaying
    /\ isReplaying' = TRUE
    /\ replayState' = [replayState EXCEPT !.index = 0, !.isPlaying = TRUE,
                                          !.speed = 2]
    /\ last' = [NoOp EXCEPT !.op = "enterReplay",
                             !.changed = \/ replayState.index # 0
                                         \/ replayState.speed # 2
                                         \/ ~replayState.isPlaying]
    /\ sched' = [sched EXCEPT !.then = sched.now]
    /\ UNCHANGED <<heap, loads>>
    /\ UNCHANGED <<params, inputState, car, replayData, currentRun, ghostRun,
                   driftSystem, scoring, hist>>

\* leaving replay with the car left on the frame the playhead showed
ExitReplay_keepsFrame ==
    /\ isReplaying
    /\ isReplaying' = FALSE
    /\ car' = car
    /\ last' = [NoOp EXCEPT !.op = "exitReplay"]
    /\ sched' = [sched EXCEPT !.then = sched.now]
    /\ UNCHANGED <<heap, loads>>
    /\ UNCHANGED <<params, inputState, replayData, replayState, currentRun,
                   ghostRun, driftSystem, scoring, hist>>

\* replay transition effect, isReplaying turned false; the loop effect is set
\* up again as on entry
ExitReplay ==
    /\ isReplaying
    /\ isReplaying' = FALSE
    /\ car' = IF Len(replayData) > 0 THEN replayData[Len(replayData)] ELSE car
    /\ last' = [NoOp EXCEPT !.op = "exitReplay"]
    /\ sched' = [sched EXCEPT !.then = sched.now]
    /\ UNCHANGED <<heap, loads>>
    /\ UNCHANGED <<params, inputState, replayData, replayState, currentRun,
                   ghostRun, driftSystem, scoring, hist>>

\* seek without the clamp
seekIndex_unclamped(value, length) ==
    2 * ((value * (length - 1)) \div 1000)

\* frame a seek lands on: value is the fraction in thousandths
seekIndex(value, length) ==
    LET frame == (value * (length - 1)) \div 1000
    IN  2 * Max(0, Min(frame, length - 1))

\* handleReplayControl
HandleReplayControl(type, value) ==
    /\ replayState' =
           CASE type = "seek" ->
                    [replayState EXCEPT !.index = seekIndex(value, Len(replayData))]
             [] type = "togglePause" ->
                    [replayState EXCEPT !.isPlaying = ~@]
             [] type = "speed" ->
                    [replayState EXCEPT !.speed = value]
             [] OTHER -> replayState
    /\ last' = [NoOp EXCEPT !.op = type]
    /\ UNCHANGED <<params, inputState, isReplaying, car, replayData, currentRun,
                   ghostRun, driftSystem, scoring, sched, heap, loads,
                   hist>>

\* ghost logic that stores every finished run
ghostAfterClear_alwaysReplaces(ghost, run, ds, sc) ==
    LET currentScore == IF ds.installed /\ ds.lastState THEN sc.totalScore ELSE 0
    IN  IF Len(run) > 0
        THEN [stored |-> TRUE, frames |-> run, totalScore |-> currentScore]
        ELSE ghost

\* the ghost logic of handleClear
ghostAfterClear(ghost, run, ds, sc) ==
    LET currentScore == IF ds.installed /\ ds.lastState THEN sc.totalScore ELSE 0
    IN  IF Len(run) > 0 /\ (~ghost.stored \/ currentScore > ghost.totalScore)
        THEN [stored |-> TRUE, frames |-> run, totalScore |-> currentScore]
        ELSE ghost

\* resetCarPosition and the car reset of handleClear
resetCar(c, p) ==
    [c EXCEPT !.xPos = effectiveWidth(p) \div 2, !.yPos = effectiveHeight(p) \div 2,
              !.speed = 0, !.driftAngle = 0, !.angle = 0]

\* handleClear that leaves the current-run buffer as it is
HandleClear_keepsCurrentRun ==
    /\ ghostRun' = ghostAfterClear(ghostRun, currentRun, driftSystem, scoring)
    /\ replayData' = << >>
    /\ currentRun' = currentRun
    /\ scoring' = IF driftSystem.installed THEN resetTotal(scoring) ELSE scoring
    /\ car' = resetCar(car, params)
    /\ last' = [NoOp EXCEPT !.op = "clear"]
    /\ hist' = [hist EXCEPT !.runTicks = 0,
                   !.finished = IF Len(currentRun) > 0
                                THEN Append(@, IF driftSystem.installed
                                               THEN scoring.totalScore ELSE 0)
                                ELSE @]
    /\ UNCHANGED <<params, inputState, isReplaying, replayState, driftSystem,
                   sched, heap, loads>>

\* handleClear: the game-reset-tracks event
HandleClear ==
    /\ ghostRun' = ghostAfterClear(ghostRun, currentRun, driftSystem, scoring)
    /\ replayData' = << >>
    /\ currentRun' = << >>
    /\ scoring' = IF driftSystem.installed THEN resetTotal(scoring) ELSE scoring
    /\ car' = resetCar(car, params)
    /\ last' = [NoOp EXCEPT !.op = "clear"]
    /\ hist' = [hist EXCEPT !.runTicks = 0,
                   !.finished = IF Len(currentRun) > 0
                                THEN Append(@, IF driftSystem.installed
                                               THEN scoring.totalScore ELSE 0)
                                ELSE @]
    /\ UNCHANGED <<params, inputState, isReplaying, replayState, driftSystem,
                   sched, heap, loads>>

----------------------------------------------------------------------------
(* The same operations on the object graph.  heap.objects holds the objects *)
(* by address: car states, ghost frames, the arrays (sequences of           *)
(* addresses) and the stored GhostRun; carRef, replayDataRef, currentRunRef *)
(* and ghostRunRef are the addresses the refs hold (0 for null).  The       *)
(* variables car, replayData, currentRun and ghostRun show what the refs    *)
(* lead to.                                                                 *)

\* a new object with value v
alloc(objects, v) == [objects |-> Append(objects, v), ref |-> Len(objects) + 1]

\* pushing the object itself instead of a copy
snapshot_alias(objects, a) == [objects |-> objects, ref |-> a]

\* { ...obj } and [...array]: a new object with the contents of the one at a
snapshot(objects, a) == alloc(objects, objects[a])

\* the objects the array at address arr leads to
Deref(h, arr) ==
    [i \in 1..Len(h.objects[arr]) |-> h.objects[h.objects[arr][i]]]

InitHeap(p) ==
    [objects |-> << InitCar(p), << >>, << >> >>, carRef |-> 1,
     replayDataRef |-> 2, currentRunRef |-> 3, ghostRunRef |-> 0]

\* what the refs show after the step
Shows(h) ==
    /\ car' = h.objects[h.carRef]
    /\ replayData' = Deref(h, h.replayDataRef)
    /\ currentRun' = Deref(h, h.currentRunRef)
    /\ ghostRun' = IF h.ghostRunRef = 0 THEN NoGhost
                   ELSE [stored |-> TRUE,
                         frames |-> Deref(h, h.objects[h.ghostRunRef].frames),
                         totalScore |-> h.objects[h.ghostRunRef].totalScore]

\* updatePhysics, live branch
LiveTickRefs(inp, cap, fps) ==
    /\ ~isReplaying
    /\ LET a == heap.carRef
           c == integrate(heap.objects[a], inp, params)
           o1 == [heap.objects EXCEPT ![a] = c]
           s == snapshot(o1, a)
           o2 == [s.objects EXCEPT ![heap.replayDataRef] = record(@, s.ref, cap)]
           g == alloc(o2, GhostFrame(c))
           o3 == [g.objects EXCEPT ![heap.currentRunRef] = record(@, g.ref, cap)]
           m == checkClippingZone(driftSystem.detector, c,
                                  effectiveWidth(params), effectiveHeight(params))
       IN  /\ heap' = [heap EXCEPT !.objects = o3]
           /\ IF driftSystem.installed
              THEN /\ scoring' = update(scoring, c.speed, c.driftAngle, m,
                                        3000 \div fps)
                   /\ driftSystem' = [driftSystem EXCEPT !.lastState = TRUE]
              ELSE UNCHANGED <<scoring, driftSystem>>
           /\ last' = [NoOp EXCEPT !.op = "tick", !.speed = c.speed,
                                    !.driftAngle = c.driftAngle,
                                    !.multiplier = IF driftSystem.installed
                                                   THEN m ELSE 0]
           /\ hist' = [hist EXCEPT !.ticks = @ + 1, !.runTicks = @ + 1,
                                   !.second = IF hist.ticks = 1 THEN c ELSE @]
    /\ Shows(heap')
    /\ UNCHANGED loads
    /\ inputState' = inp
    /\ UNCHANGED <<params, isReplaying, replayState, sched>>

\* updatePhysics, replay branch
ReplayTickRefs ==
    /\ isReplaying
    /\ LET frames == heap.objects[heap.replayDataRef]
           totalFrames == Len(frames)
           index == advance(replayState, totalFrames)
           frameIndex == index \div 2
           n == replayState.framesSinceLastUIUpdate + 1
           s == snapshot(heap.objects, frames[frameIndex + 1])
       IN IF totalFrames = 0
          THEN UNCHANGED <<heap, replayState>>
          ELSE /\ heap' = IF frameIndex >= 0 /\ frameIndex < totalFrames
                          THEN [heap EXCEPT !.objects = s.objects,
                                            !.carRef = s.ref]
                          ELSE heap
               /\ replayState' =
                      [replayState EXCEPT !.index = index,
                           !.framesSinceLastUIUpdate = IF n > 5 THEN 0 ELSE n]
    /\ Shows(heap')
    /\ UNCHANGED loads
    /\ last' = [NoOp EXCEPT !.op = "replayTick"]
    /\ UNCHANGED <<params, inputState, isReplaying, driftSystem, scoring,
                   sched, hist>>

\* replay transition effect, isReplaying turned true
EnterReplayRefs ==
    /\ ~isReplaying
    /\ isReplaying' = TRUE
    /\ replayState' = [replayState EXCEPT !.index = 0, !.isPlaying = TRUE,
                                          !.speed = 2]
    /\ last' = [NoOp EXCEPT !.op = "enterReplay"]
    /\ Shows(heap)
    /\ UNCHANGED <<params, inputState, driftSystem, scoring, sched, heap, loads,
                   hist>>

\* replay transition effect, isReplaying turned false
ExitReplayRefs ==
    /\ isReplaying
    /\ isReplaying' = FALSE
    /\ LET frames == heap.objects[heap.replayDataRef]
           s == snapshot(heap.objects, frames[Len(frames)])
       IN  heap' = IF Len(frames) > 0
                   THEN [heap EXCEPT !.objects = s.objects, !.carRef = s.ref]
                   ELSE heap
    /\ Shows(heap')
    /\ UNCHANGED loads
    /\ last' = [NoOp EXCEPT !.op = "exitReplay"]
    /\ UNCHANGED <<params, inputState, replayState, driftSystem, scoring,
                   sched, hist>>

\* handleClear: the game-reset-tracks event
HandleClearRefs ==
    /\ LET run == heap.objects[heap.currentRunRef]
           currentScore == IF driftSystem.installed /\ driftSystem.lastState
                           THEN scoring.totalScore ELSE 0
           store == /\ Len(run) > 0
                    /\ \/ heap.ghostRunRef = 0
                       \/ currentScore > heap.objects[heap.ghostRunRef].totalScore
           frames == snapshot(heap.objects, heap.currentRunRef)
           ghost == alloc(frames.objects,
                          [frames |-> frames.ref, totalScore |-> currentScore])
           o1 == IF store THEN ghost.objects ELSE heap.objects
           rd == alloc(o1, << >>)
           cr == alloc(rd.objects, << >>)
       IN  heap' = [objects |-> [cr.objects EXCEPT
                                    ![heap.carRef] = resetCar(@, params)],
                    carRef |-> heap.carRef,
                    replayDataRef |-> rd.ref,
                    currentRunRef |-> cr.ref,
                    ghostRunRef |-> IF store THEN ghost.ref ELSE heap.ghostRunRef]
    /\ Shows(heap')
    /\ UNCHANGED loads
    /\ scoring' = IF driftSystem.installed THEN resetTotal(scoring) ELSE scoring
    /\ last' = [NoOp EXCEPT !.op = "clear"]
    /\ hist' = [hist EXCEPT !.runTicks = 0,
                   !.finished = IF Len(currentRun) > 0
                                THEN Append(@, IF driftSystem.installed
                                               THEN scoring.totalScore ELSE 0)
                                ELSE @]
    /\ UNCHANGED <<params, inputState, isReplaying, replayState, driftSystem,
                   sched>>

----------------------------------------------------------------------------
(* Bounds *)

\* update() is called while no score exceeds this many thousandths
MaxScore == 3000000

\* calls of update() and resetTotal() in one behaviour of SpecS
MaxCalls == 5

Speeds == {2999, 3000, -4000}

\* 0, 1 and 20 degrees
DriftAngles == {0, 1000, -1000, 20000}

Multipliers == {10, 25}

\* 1/60 s and 1 s
DeltaTimes == {50, 3000}

----------------------------------------------------------------------------
(* SpecS: a DriftScoring instance driven on its own by update() and         *)
(* resetTotal()                                                             *)

InitS == InitWith(DEFAULT_PARAMS)

Update(speed, driftAngle, mult, dt) ==
    /\ hist.ticks < MaxCalls
    /\ scoring.currentScore <= MaxScore
    /\ scoring.totalScore <= MaxScore
    /\ scoring' = update(scoring, speed, driftAngle, mult, dt)
    /\ last' = [NoOp EXCEPT !.op = "update", !.speed = speed,
                             !.driftAngle = driftAngle]
    /\ hist' = [hist EXCEPT !.ticks = @ + 1]
    /\ UNCHANGED <<params, inputState, isReplaying, car, replayData,
                   replayState, currentRun, ghostRun, driftSystem, sched, heap, loads>>

ResetTotal ==
    /\ hist.ticks < MaxCalls
    /\ scoring' = resetTotal(scoring)
    /\ last' = [NoOp EXCEPT !.op = "resetTotal"]
    /\ hist' = [hist EXCEPT !.ticks = @ + 1]
    /\ UNCHANGED <<params, inputState, isReplaying, car, replayData,
                   replayState, currentRun, ghostRun, driftSystem, sched, heap, loads>>

NextS ==
    \/ \E sp \in Speeds, da \in DriftAngles, m \in Multipliers, dt \in DeltaTimes :
           Update(sp, da, m, dt)
    \/ ResetTotal

SpecS == InitS /\ [][NextS]_vars

----------------------------------------------------------------------------
(* Spec: the game component with a short recorder.  The recorder capacity   *)
(* and the tick rate are the arguments of LiveTick; here they are FrameCap  *)
(* and TickRate in place of REPLAY_MAX_FRAMES and FPS, so that eviction and *)
(* the combo countdown happen within a few ticks.                           *)

FrameCap == 2

TickRate == 1

\* live ticks in one behaviour
MaxTicks == 3

\* finished runs (resets of a run with recorded frames) in one behaviour
MaxRuns == 2

Keys == {"up"}

\* seek fractions in thousandths, two of them outside [0, 1]
SeekValues == {-500, 0, 500, 1000, 1500}

\* 0.5x, 1x, 2x
ReplaySpeeds == {1, 2, 4}

Init == InitWith(DEFAULT_PARAMS)

Next ==
    \/ \E k \in Keys, isDown \in BOOLEAN : HandleKey(k, isDown)
    \/ hist.ticks < MaxTicks /\ LiveTick(FrameCap, TickRate)
    \/ ReplayTick
    \/ EnterReplay
    \/ ExitReplay
    \/ \E v \in SeekValues : HandleReplayControl("seek", v)
    \/ HandleReplayControl("togglePause", 0)
    \/ \E v \in ReplaySpeeds : HandleReplayControl("speed", v)
    \/ Len(hist.finished) < MaxRuns /\ HandleClear

Spec == Init /\ [][Next]_vars

----------------------------------------------------------------------------
(* SpecR: the recorder at its real capacity and tick rate.  The behaviours  *)
(* start from the state the game is in after WarmTicks live ticks with the  *)
(* throttle held since the first tick, and go on to MaxTicksR ticks with    *)
(* the throttle key pressed and released freely.                            *)

WarmTicks == 1795

MaxTicksR == 1802

Throttle == [NoInput EXCEPT !.up = TRUE]

\* the car states of the n live ticks that follow state c with the throttle
\* held
throttleRun(c, n) == heldRun(c, Throttle, DEFAULT_PARAMS, n)

InitR ==
    /\ params = DEFAULT_PARAMS
    /\ inputState = Throttle
    /\ isReplaying = FALSE
    /\ replayData = throttleRun(InitCar(DEFAULT_PARAMS), WarmTicks)
    /\ car = replayData[WarmTicks]
    /\ replayState = InitReplayState
    /\ currentRun = [i \in 1..WarmTicks |-> GhostFrame(replayData[i])]
    /\ ghostRun = NoGhost
    /\ driftSystem = NoSystem
    /\ scoring = InitScoring
    /\ sched = InitSched
    /\ heap = NoHeap
    /\ loads = NoLoads
    /\ last = [NoOp EXCEPT !.op = "tick", !.speed = car.speed,
                            !.driftAngle = car.driftAngle]
    /\ hist = [InitHist EXCEPT !.ticks = WarmTicks, !.runTicks = WarmTicks,
                                !.second = replayData[2]]

NextR ==
    \/ \E k \in Keys, isDown \in BOOLEAN : HandleKey(k, isDown)
    \/ hist.ticks < MaxTicksR /\ LiveTick(REPLAY_MAX_FRAMES, FPS)

SpecR == InitR /\ [][NextR]_vars

----------------------------------------------------------------------------
(* SpecG: runs and resets.  The car is driven with the Acceleration slider  *)
(* at its maximum, the drift system is installed (without track image)      *)
(* within the first LoadTicks ticks, and each tick reads one of the         *)
(* InputVectors: the throttle held while steering left or right.            *)

MaxTicksG == 7

LoadTicks == 1

InputVectors ==
    { [NoInput EXCEPT !.up = TRUE, !.left = TRUE],
      [NoInput EXCEPT !.up = TRUE, !.right = TRUE] }

InitG == InitWith(FAST_PARAMS)

NextG ==
    \/ \E v \in InputVectors :
           hist.ticks < MaxTicksG /\ KeysThenTick(v, FrameCap, TickRate)
    \/ Len(hist.finished) < MaxRuns /\ HandleClear
    \/ hist.ticks < LoadTicks /\ InitSystemDone("absent", 0)

SpecG == InitG /\ [][NextG]_vars

----------------------------------------------------------------------------
(* Claims about DriftScoring, checked under SpecS *)

\* C1: at every tick boundary, after any sequence of update() and
\* resetTotal() calls, currentScore is 0 whenever isDrifting is false.
C1_ScoreZeroWhenIdle == ~scoring.isDrifting => scoring.currentScore = 0

\* a drift that earned points has ended and been banked, leaving the machine idle
C1_Witness ==
    /\ last.op = "update"
    /\ ~scoring.isDrifting
    /\ scoring.totalScore > 0

\* C2: an update() tick never lowers totalScore; resetTotal() sets it to 0.
C2_TotalMonotone ==
    [][ /\ last'.op = "update" => scoring'.totalScore >= scoring.totalScore
        /\ last'.op = "resetTotal" => scoring'.totalScore = 0 ]_vars

\* a banked total is carried into a later drift session
C2_Witness ==
    /\ last.op = "update"
    /\ scoring.isDrifting
    /\ scoring.totalScore > 0

\* C3: a tick with |speed| < minSpeed during a drift that holds points ends
\* the drift without banking: totalScore unchanged, isDrifting false,
\* currentScore 0, combo 0.
C3_FailPath ==
    [][ ( /\ last'.op = "update"
          /\ Abs(last'.speed) < minSpeed
          /\ scoring.isDrifting
          /\ scoring.currentScore > 0 )
        => ( /\ scoring'.totalScore = scoring.totalScore
             /\ ~scoring'.isDrifting
             /\ scoring'.currentScore = 0
             /\ scoring'.combo = 0 ) ]_vars

\* a slow tick has just ended a drift that had run for some time, and nothing
\* was ever banked
C3_Witness ==
    /\ last.op = "update"
    /\ Abs(last.speed) < minSpeed
    /\ ~scoring.isDrifting
    /\ scoring.duration > 0
    /\ scoring.lastDriftDir = 0
    /\ scoring.totalScore = 0

\* C4: on a tick with |speed| >= minSpeed taken from Idle, a drift starts
\* exactly when the car's drift angle, in degrees, is at least minDriftAngle
\* (and then the session holds points).
C4_DriftIffFifteenDegrees ==
    [][ ( /\ last'.op = "update"
          /\ Abs(last'.speed) >= minSpeed
          /\ ~scoring.isDrifting )
        => /\ scoring'.isDrifting <=> Abs(last'.driftAngle) >= minDriftAngle
           /\ scoring'.isDrifting => scoring'.currentScore > 0 ]_vars

----------------------------------------------------------------------------
(* SpecW: the car at the edges of the world.  The behaviours start from the *)
(* state after one of the Approaches, ApproachTicks live ticks in all: the  *)
(* car waits at rest, steers for a while with the throttle held and then    *)
(* drives or reverses straight on until it is within three ticks of an edge *)
(* (driving on: the top edge; reversing: the bottom edge; after steering    *)
(* right or left: the right or the left edge).                              *)

ApproachTicks == 273

MaxTicksW == 4

Reverse == [NoInput EXCEPT !.down = TRUE]

Approaches ==
    { [steer |-> NoInput, steerTicks |-> 0, hold |-> Throttle, holdTicks |-> 246],
      [steer |-> NoInput, steerTicks |-> 0, hold |-> Reverse, holdTicks |-> 273],
      [steer |-> [Throttle EXCEPT !.right = TRUE], steerTicks |-> 16,
       hold |-> Throttle, holdTicks |-> 215],
      [steer |-> [Throttle EXCEPT !.left = TRUE], steerTicks |-> 16,
       hold |-> Throttle, holdTicks |-> 215] }

EdgeInputs == {Throttle, Reverse, NoInput}

\* the last state of a run that started from c
lastOf(run, c) == IF Len(run) = 0 THEN c ELSE run[Len(run)]

\* the car states recorded along approach a
approachRun(a) ==
    LET p == DEFAULT_PARAMS
        c0 == InitCar(p)
        waiting == heldRun(c0, NoInput, p,
                           ApproachTicks - a.steerTicks - a.holdTicks)
        steering == heldRun(lastOf(waiting, c0), a.steer, p, a.steerTicks)
        c2 == lastOf(steering, lastOf(waiting, c0))
    IN  waiting \o steering \o heldRun(c2, a.hold, p, a.holdTicks)

InitW ==
    /\ params = DEFAULT_PARAMS
    /\ isReplaying = FALSE
    /\ \E a \in Approaches :
           /\ inputState = a.hold
           /\ replayData = approachRun(a)
    /\ car = replayData[ApproachTicks]
    /\ replayState = InitReplayState
    /\ currentRun = [i \in 1..ApproachTicks |-> GhostFrame(replayData[i])]
    /\ ghostRun = NoGhost
    /\ driftSystem = NoSystem
    /\ scoring = InitScoring
    /\ sched = InitSched
    /\ heap = NoHeap
    /\ loads = NoLoads
    /\ last = [NoOp EXCEPT !.op = "tick", !.speed = car.speed,
                            !.driftAngle = car.driftAngle]
    /\ hist = [InitHist EXCEPT !.ticks = ApproachTicks,
                                !.runTicks = ApproachTicks,
                                !.second = replayData[2]]

NextW ==
    \E v \in EdgeInputs :
        /\ hist.ticks < ApproachTicks + MaxTicksW
        /\ KeysThenTick(v, REPLAY_MAX_FRAMES, FPS)

SpecW == InitW /\ [][NextW]_vars

----------------------------------------------------------------------------
(* SpecV: speed while reversing out of a spin.  The Turn Speed slider is at *)
(* its maximum; from rest the driver steers left with the throttle held,    *)
(* adds the brake, then lets go of everything but the brake (SpinPhases).   *)
(* The behaviours start after these ticks and go on for MaxTicksV ticks     *)
(* with any of the EdgeInputs.                                              *)

MaxTicksV == 6

SpinPhases ==
    << [inp |-> [Throttle EXCEPT !.left = TRUE], ticks |-> 76],
       [inp |-> [Throttle EXCEPT !.left = TRUE, !.down = TRUE], ticks |-> 5],
       [inp |-> Reverse, ticks |-> 35] >>

SpinTicks == SpinPhases[1].ticks + SpinPhases[2].ticks + SpinPhases[3].ticks

\* the car states of a run from state c through the phases in turn
RECURSIVE phasedRun(_, _, _)
phasedRun(c, p, phases) ==
    IF Len(phases) = 0 THEN << >>
    ELSE LET run == heldRun(c, phases[1].inp, p, phases[1].ticks)
         IN  run \o phasedRun(lastOf(run, c), p, Tail(phases))

InitV ==
    /\ params = QUICK_TURN_PARAMS
    /\ isReplaying = FALSE
    /\ inputState = Reverse
    /\ replayData = phasedRun(InitCar(params), params, SpinPhases)
    /\ car = replayData[Len(replayData)]
    /\ replayState = InitReplayState
    /\ currentRun = [i \in 1..Len(replayData) |-> GhostFrame(replayData[i])]
    /\ ghostRun = NoGhost
    /\ driftSystem = NoSystem
    /\ scoring = InitScoring
    /\ sched = InitSched
    /\ heap = NoHeap
    /\ loads = NoLoads
    /\ last = [NoOp EXCEPT !.op = "tick", !.speed = car.speed,
                            !.driftAngle = car.driftAngle]
    /\ hist = [InitHist EXCEPT !.ticks = SpinTicks, !.runTicks = SpinTicks,
                                !.second = replayData[2]]

NextV ==
    \E v \in EdgeInputs :
        /\ hist.ticks < SpinTicks + MaxTicksV
        /\ KeysThenTick(v, REPLAY_MAX_FRAMES, FPS)

SpecV == InitV /\ [][NextV]_vars

----------------------------------------------------------------------------
(* SpecT: a straight run.  The throttle key is pressed, or not, before the  *)
(* first tick and nothing else is touched for MaxTicksT ticks.              *)

MaxTicksT == 100

NextT ==
    \/ \E isDown \in BOOLEAN : hist.ticks = 0 /\ HandleKey("up", isDown)
    \/ hist.ticks < MaxTicksT /\ LiveTick(REPLAY_MAX_FRAMES, FPS)

SpecT == Init /\ [][NextT]_vars

----------------------------------------------------------------------------
(* SpecC: a drift system as createDriftSystem returns it, driven on its own *)
(* by update(): the track image loads in one of the LoadOutcomes, and each  *)
(* call passes a car placed at one of the Poses, standing or drifting.      *)

MaxCallsC == 1

\* car positions on the track, its edges included, and headings
TrackPoses ==
    { [x |-> x, y |-> y, angle |-> a] :
          x \in {0, 12000, 475000, 487500, 975000},
          y \in {0, 975000, 1950000},
          a \in {0, 40000, 90000, 135000} }

\* positions off the track: update() accepts any CarState, although the game
\* wraps the car before it calls
OffTrackPoses ==
    { [x |-> x, y |-> 975000, angle |-> a] :
          x \in {-50000, 1025000}, a \in {0, 40000} }

Poses == TrackPoses \cup OffTrackPoses

\* speed and driftAngle of a car standing and of a car in a drift
Motions == { [speed |-> 0, driftAngle |-> 0], [speed |-> 4000, driftAngle |-> 500] }

SystemUpdate(pose, motion, dt) ==
    /\ driftSystem.installed
    /\ hist.ticks < MaxCallsC
    /\ LET c == [car EXCEPT !.xPos = pose.x, !.yPos = pose.y,
                            !.angle = pose.angle, !.speed = motion.speed,
                            !.driftAngle = motion.driftAngle]
           m == checkClippingZone(driftSystem.detector, c,
                                  effectiveWidth(params), effectiveHeight(params))
       IN  /\ car' = c
           /\ scoring' = update(scoring, c.speed, c.driftAngle, m, dt)
           /\ driftSystem' = [driftSystem EXCEPT !.lastState = TRUE]
           /\ last' = [NoOp EXCEPT !.op = "update", !.speed = c.speed,
                                    !.driftAngle = c.driftAngle,
                                    !.multiplier = m]
    /\ hist' = [hist EXCEPT !.ticks = @ + 1]
    /\ UNCHANGED <<params, inputState, isReplaying, replayData, replayState,
                   currentRun, ghostRun, sched, heap, loads>>

NextC ==
    \/ \E o \in LoadOutcomes, k \in 1..Len(TrackImages) : InitSystemDone(o, k)
    \/ \E pose \in Poses, motion \in Motions : SystemUpdate(pose, motion, 3000 \div FPS)

SpecC == Init /\ [][NextC]_vars

----------------------------------------------------------------------------
(* SpecI: the game with a track image.  The image loads, in one of the      *)
(* LoadOutcomes, before the first tick; the car is driven with the          *)
(* Acceleration slider at its maximum and steered left or right.            *)

MaxTicksI == 6

NextI ==
    \/ \E v \in InputVectors :
           hist.ticks < MaxTicksI /\ KeysThenTick(v, REPLAY_MAX_FRAMES, FPS)
    \/ \E o \in LoadOutcomes, k \in 1..Len(TrackImages) :
           hist.ticks = 0 /\ InitSystemDone(o, k)

SpecI == InitG /\ [][NextI]_vars

----------------------------------------------------------------------------
(* SpecP: driving, then watching the replay.  The drift system is installed *)
(* before the first tick, the car is driven as in SpecG, and replay mode is *)
(* entered and left at any time.                                            *)

MaxTicksP == 5

NextP ==
    \/ \E v \in InputVectors :
           hist.ticks < MaxTicksP /\ KeysThenTick(v, REPLAY_MAX_FRAMES, FPS)
    \/ hist.ticks = 0 /\ InitSystemDone("absent", 0)
    \/ ReplayTick
    \/ EnterReplay
    \/ ExitReplay

SpecP == InitG /\ [][NextP]_vars

----------------------------------------------------------------------------
(* SpecA: the game on the object graph, with the short recorder of Spec and *)
(* the driving of SpecG.                                                    *)

MaxTicksA == 4

\* objects allocated in one behaviour of SpecA
MaxObjects == 16

InitA ==
    /\ params = FAST_PARAMS
    /\ inputState = NoInput
    /\ isReplaying = FALSE
    /\ heap = InitHeap(FAST_PARAMS)
    /\ loads = NoLoads
    /\ car = heap.objects[heap.carRef]
    /\ replayData = << >>
    /\ replayState = InitReplayState
    /\ currentRun = << >>
    /\ ghostRun = NoGhost
    /\ driftSystem = NoSystem
    /\ scoring = InitScoring
    /\ sched = InitSched
    /\ last = NoOp
    /\ hist = InitHist

NextA ==
    \/ \E v \in InputVectors :
           /\ hist.ticks < MaxTicksA
           /\ Len(heap.objects) < MaxObjects
           /\ LiveTickRefs(v, FrameCap, FPS)
    \/ Len(heap.objects) < MaxObjects /\ ReplayTickRefs
    \/ EnterReplayRefs
    \/ Len(heap.objects) < MaxObjects /\ ExitReplayRefs
    \/ /\ Len(hist.finished) < MaxRuns
       /\ Len(heap.objects) < MaxObjects
       /\ HandleClearRefs

SpecA == InitA /\ [][NextA]_vars

----------------------------------------------------------------------------
(* SpecH: the recorders at their real capacity, with replay sessions and    *)
(* resets.  The behaviours start as in SpecR; the throttle stays held, the  *)
(* playhead is followed over its first MaxPlayhead half-frames.             *)

MaxPlayhead == 4

NextH ==
    \/ hist.ticks < MaxTicksR /\ LiveTick(REPLAY_MAX_FRAMES, FPS)
    \/ replayState.index < MaxPlayhead /\ ReplayTick
    \/ EnterReplay
    \/ ExitReplay
    \/ Len(hist.finished) < MaxRuns /\ HandleClear

SpecH == InitR /\ [][NextH]_vars

----------------------------------------------------------------------------
(* SpecN: steering without the throttle.  From rest, each tick reads one of *)
(* the CoastInputs: the throttle or the brake alone, or a steering key      *)
(* alone.                                                                   *)

MaxTicksN == 6

CoastInputs ==
    { Throttle, Reverse,
      [NoInput EXCEPT !.left = TRUE], [NoInput EXCEPT !.right = TRUE] }

NextN ==
    \E v \in CoastInputs :
        /\ hist.ticks < MaxTicksN
        /\ KeysThenTick(v, REPLAY_MAX_FRAMES, FPS)

SpecN == Init /\ [][NextN]_vars

----------------------------------------------------------------------------
(* SpecQ: resets in the middle of a turn.  From rest, each tick reads the   *)
(* throttle with a steering key, or no key at all; the run can be reset     *)
(* between any two ticks.                                                   *)

MaxTicksQ == 5

TurnOrIdle ==
    { [Throttle EXCEPT !.left = TRUE], [Throttle EXCEPT !.right = TRUE],
      NoInput }

NextQ ==
    \/ \E v \in TurnOrIdle :
           /\ hist.ticks < MaxTicksQ
           /\ KeysThenTick(v, REPLAY_MAX_FRAMES, FPS)
    \/ Len(hist.finished) < MaxRuns /\ HandleClear

SpecQ == Init /\ [][NextQ]_vars

----------------------------------------------------------------------------
(* SpecK: the keyboard across replay sessions.  Control keys go down and up *)
(* at any time, in live mode and while replaying; live ticks read the flags *)
(* as the listener left them.                                               *)

MaxTicksK == 3

ControlKeys == {"up", "left"}

NextK ==
    \/ \E k \in ControlKeys, isDown \in BOOLEAN : KeyEvent(k, isDown)
    \/ hist.ticks < MaxTicksK /\ LiveTick(REPLAY_MAX_FRAMES, FPS)
    \/ ReplayTick
    \/ EnterReplay
    \/ ExitReplay

SpecK == Init /\ [][NextK]_vars

----------------------------------------------------------------------------
(* SpecF: changing the track while drift systems load.  The effect has run  *)
(* once at mount; the track source changes at any time, up to MaxLoads runs *)
(* of the effect, and the loads settle in any order and outcome.            *)

MaxLoads == 3

Sources ==
    { [trackUrl |-> 1, mapData |-> FALSE], [trackUrl |-> 2, mapData |-> FALSE],
      [trackUrl |-> 2, mapData |-> TRUE] }

InitF ==
    /\ params = DEFAULT_PARAMS
    /\ inputState = NoInput
    /\ isReplaying = FALSE
    /\ car = InitCar(params)
    /\ replayData = << >>
    /\ replayState = InitReplayState
    /\ currentRun = << >>
    /\ ghostRun = NoGhost
    /\ driftSystem = NoSystem
    /\ scoring = InitScoring
    /\ sched = InitSched
    /\ heap = NoHeap
    /\ \E source \in Sources : loads = [NoLoads EXCEPT !.runs = << NewRun(source) >>]
    /\ last = NoOp
    /\ hist = InitHist

NextF ==
    \/ \E source \in Sources :
           Len(loads.runs) < MaxLoads /\ SourceChange(source)
    \/ \E i \in 1..MaxLoads, o \in LoadOutcomes : LoadSettles(i, o)

SpecF == InitF /\ [][NextF]_vars

----------------------------------------------------------------------------
(* SpecD: steering and letting go.  From rest, each tick reads one of the   *)
(* SteerInputs: steering left or right under throttle, steering while       *)
(* braking into reverse, or no key at all.                                  *)

MaxTicksD == 6

SteerInputs ==
    { [Throttle EXCEPT !.left = TRUE], [Throttle EXCEPT !.right = TRUE],
      [Reverse EXCEPT !.left = TRUE], NoInput }

NextD ==
    \E v \in SteerInputs :
        /\ hist.ticks < MaxTicksD
        /\ KeysThenTick(v, REPLAY_MAX_FRAMES, FPS)

SpecD == Init /\ [][NextD]_vars

----------------------------------------------------------------------------
(* SpecL: the animation loop.  Callbacks arrive Gaps apart (120 Hz, 60 Hz   *)
(* and 25 Hz displays) and drive the game at the real tick rate.            *)

MaxCallbacks == 5

Gaps == {25, 50, 120}

NextL ==
    \/ \E g \in Gaps :
           sched.callbacks < MaxCallbacks /\ Loop(g, REPLAY_MAX_FRAMES, FPS)
    \/ \E k \in Keys, isDown \in BOOLEAN : HandleKey(k, isDown)
    \/ EnterReplay
    \/ ExitReplay

SpecL == Init /\ [][NextL]_vars

----------------------------------------------------------------------------
(* Claims about the recorder, the ghost and the replay player *)

\* C5: the replay buffer never holds more than 1800 entries; after exactly
\* 1801 live ticks it holds 1800 and its first entry is the state recorded on
\* the second tick.  Checked under SpecR.
C5_ReplayBufferBounded ==
    /\ Len(replayData) <= REPLAY_MAX_FRAMES
    /\ Len(replayData) = Min(hist.ticks, REPLAY_MAX_FRAMES)
    /\ hist.ticks = REPLAY_MAX_FRAMES + 1 => replayData[1] = hist.second

\* 1801 ticks of a moving car: the second tick's state is the oldest entry and
\* differs from the one recorded after it
C5_Witness ==
    /\ hist.ticks = REPLAY_MAX_FRAMES + 1
    /\ Len(replayData) = REPLAY_MAX_FRAMES
    /\ replayData[1] = hist.second
    /\ replayData[1] # replayData[2]
    /\ replayData[1].speed > 0

SeqMax(q) == CHOOSE x \in {q[i] : i \in 1..Len(q)} :
                 \A i \in 1..Len(q) : q[i] <= x

\* C6: after any sequence of resets the stored GhostRun's totalScore is the
\* maximum of the totals banked by the finished runs that had recorded frames
\* (none stored when there was no such run); a reset replaces the stored run
\* only when none is stored or the finished run scored strictly more, and a
\* reset of an empty run leaves it unchanged.  Checked under SpecG.
C6_GhostKeepsBest ==
    [][ /\ ghostRun'.stored <=> Len(hist'.finished) > 0
        /\ ghostRun'.stored => ghostRun'.totalScore = SeqMax(hist'.finished)
        /\ (last'.op = "clear" /\ Len(currentRun) = 0) => ghostRun' = ghostRun
        /\ (last'.op = "clear" /\ ghostRun' # ghostRun)
               => \/ ~ghostRun.stored
                  \/ ghostRun'.totalScore > ghostRun.totalScore ]_vars

\* two finished runs, the first with the higher banked total: the ghost of
\* the first run is retained
C6_Witness ==
    /\ last.op = "clear"
    /\ Len(hist.finished) = 2
    /\ hist.finished[1] > hist.finished[2]
    /\ ghostRun.stored
    /\ ghostRun.totalScore = hist.finished[1]

\* C7: leaving replay mode with a non-empty buffer makes the live car a copy
\* of the last recorded entry, whatever frame the playhead showed, and a live
\* tick that follows directly continues from that entry.
C7_ExitSnapsToLast ==
    [][ /\ (last'.op = "exitReplay" /\ Len(replayData) > 0)
           => car' = replayData[Len(replayData)]
        /\ (last.op = "exitReplay" /\ last'.op = "tick" /\ Len(replayData) > 0)
           => car' = integrate(replayData[Len(replayData)], inputState, params)
      ]_vars

\* replay was left while the playhead stood on an earlier, different frame
C7_Witness ==
    /\ last.op = "exitReplay"
    /\ Len(replayData) >= 2
    /\ replayState.index \div 2 + 1 < Len(replayData)
    /\ replayData[replayState.index \div 2 + 1] # replayData[Len(replayData)]
    /\ replayState.framesSinceLastUIUpdate > 0
    /\ car = replayData[Len(replayData)]

\* C8: after a replay tick on a non-empty buffer the displayed car is the
\* entry at floor(index), which lies inside the buffer; while playing the
\* playhead moved on by speed and looped to 0 at the end, while paused it
\* stayed.
C8_ReplayShowsFrame ==
    [][ (/\ last'.op = "replayTick"
         /\ Len(replayData) > 0
         /\ replayState.speed \in ReplaySpeeds)
        => LET frameIndex == replayState'.index \div 2
               moved == replayState.index + replayState.speed
           IN  /\ 0 <= frameIndex /\ frameIndex < Len(replayData)
               /\ car' = replayData[frameIndex + 1]
               /\ replayState.isPlaying =>
                      replayState'.index =
                          IF moved >= 2 * Len(replayData) THEN 0 ELSE moved
               /\ ~replayState.isPlaying =>
                      replayState'.index = replayState.index ]_vars

\* a replay tick at half speed left the playhead between two frames, past
\* the first one
C8_Witness ==
    /\ last.op = "replayTick"
    /\ isReplaying
    /\ replayState.index = 3
    /\ Len(replayData) >= 2
    /\ car = replayData[2]
    /\ replayData[1] # replayData[2]

C10_EnterResets ==
    [][ last'.op = "enterReplay"
        => /\ isReplaying'
           /\ replayState'.index = 0
           /\ replayState'.speed = 2
           /\ replayState'.isPlaying ]_vars

\* replay was entered with a player that earlier controls had moved, slowed
\* or paused
C10_Witness ==
    /\ last.op = "enterReplay"
    /\ last.changed
    /\ replayState.index = 0
    /\ replayState.speed = 2
    /\ replayState.isPlaying

----------------------------------------------------------------------------
(* Claims about the loop and the integrator *)

\* C11: a callback of the loop performs no tick or one tick; it performs one
\* exactly when the time since the tick reference exceeds 1000/60 ms, and the
\* reference then becomes now minus the remainder (elapsed mod interval), so
\* the time owed by slow frames is not made up.  Checked under SpecL.
C11_OneTickPerCallback ==
    [][ sched'.callbacks # sched.callbacks
        => LET delta == sched'.now - sched.then
               due == delta > interval(FPS)
           IN  /\ sched'.callbacks = sched.callbacks + 1
               /\ due <=> last'.op \in {"tick", "replayTick"}
               /\ ~due <=> last'.op = "idle"
               /\ hist'.ticks = hist.ticks + (IF last'.op = "tick" THEN 1 ELSE 0)
               /\ Len(replayData') <= Len(replayData) + 1
               /\ ~due => /\ car' = car /\ replayData' = replayData
                          /\ replayState' = replayState
                          /\ sched'.then = sched.then
               /\ due => /\ sched'.then = sched'.now - (delta % interval(FPS))
                         /\ sched'.now - sched'.then < interval(FPS)
      ]_vars

\* three slow frames in a row: one tick each, although more than twice that
\* many intervals have passed, and less than one interval is carried over
C11_Witness ==
    /\ last.op = "tick"
    /\ sched.callbacks >= 3
    /\ hist.ticks = sched.callbacks
    /\ sched.now > 2 * interval(FPS) * hist.ticks
    /\ sched.now - sched.then > 0
    /\ sched.now - sched.then < interval(FPS)

\* C12: after every live tick 0 <= xPos <= worldWidth and 0 <= yPos <=
\* worldHeight; a coordinate the integration carried past the world extent
\* is exactly 0, one carried below 0 is exactly the extent, and one inside is
\* kept, each axis on its own.  Checked under SpecW.
C12_BoundsWrap ==
    [][ last'.op = "tick"
        => LET mapW == effectiveWidth(params)
               mapH == effectiveHeight(params)
               moved == advanceCar(car, inputState', params)
           IN  /\ 0 <= car'.xPos /\ car'.xPos <= mapW
               /\ 0 <= car'.yPos /\ car'.yPos <= mapH
               /\ moved.xPos > mapW => car'.xPos = 0
               /\ moved.xPos < 0 => car'.xPos = mapW
               /\ (0 <= moved.xPos /\ moved.xPos <= mapW)
                      => car'.xPos = moved.xPos
               /\ moved.yPos > mapH => car'.yPos = 0
               /\ moved.yPos < 0 => car'.yPos = mapH
               /\ (0 <= moved.yPos /\ moved.yPos <= mapH)
                      => car'.yPos = moved.yPos ]_vars

\* the car drove over the right edge on the latest tick and is at x = 0,
\* with its y coordinate inside the world and untouched
C12_Witness ==
    /\ last.op = "tick"
    /\ hist.ticks > ApproachTicks
    /\ car.xPos = 0
    /\ car.xSpeed > 0
    /\ replayData[Len(replayData) - 1].xPos + car.xSpeed > effectiveWidth(params)
    /\ car.yPos = replayData[Len(replayData) - 1].yPos - car.ySpeed
    /\ car.yPos > 0

\* C13: on every live tick of a run that started from rest, whatever the
\* inputs, |speed| right after the acceleration / braking step is at most
\* max(maxSpeed, |maxReverseSpeed|) + max(accelerationFactor,
\* decelerationFactor).  Checked under SpecV.
C13_SpeedBound ==
    [][ last'.op = "tick"
        => Abs(accelerate(car, inputState', params).speed)
              <= Max(params.maxSpeed, Abs(params.maxReverseSpeed))
                 + Max(params.accelerationFactor, params.decelerationFactor)
      ]_vars

\* C14 as stated: with only the throttle held from rest (accelerationFactor
\* 0.1, maxSpeed 5), the speed is exactly 5.0 after tick 50 and below the cap
\* after every earlier tick.  Checked under SpecT.
C14_CapAtTick50 ==
    (inputState.up /\ last.op = "tick")
    => /\ hist.ticks = 50 => car.speed = params.maxSpeed
       /\ hist.ticks < 50 => car.speed < params.maxSpeed

\* C14 as amended: with only the throttle held from rest, the speed rises on
\* every tick and is below the cap after every tick up to and including tick
\* 50, where it is about 3.1: the drag of 0.98 acts on every tick.
C14_BelowCapAtTick50 ==
    [][ (inputState.up /\ last'.op = "tick" /\ hist'.ticks <= 50)
        => /\ car.speed < car'.speed
           /\ car'.speed < params.maxSpeed
           /\ hist'.ticks = 50 => (3000 <= car'.speed /\ car'.speed <= 3200)
      ]_vars

\* tick 50 of the throttle-only run from the start position
C14_Witness ==
    /\ last.op = "tick"
    /\ hist.ticks = 50
    /\ inputState = Throttle
    /\ Len(replayData) = 50
    /\ replayData[1].speed > 0
    /\ car.speed > replayData[49].speed
    /\ car.speed < params.maxSpeed
    /\ car.xPos = InitCar(params).xPos

\* x after a tick still has the sign of x before it and is no larger
Decayed(before, after) ==
    /\ Sign(after) = Sign(before) \/ after = 0
    /\ Abs(after) <= Abs(before)

\* C15 as stated: on a tick with no key held, whatever the vehicle state,
\* angularVelocity and driftAngle each keep their sign and do not grow.
\* Checked under SpecD.
C15_BothDecay ==
    [][ (last'.op = "tick" /\ inputState' = NoInput)
        => /\ Decayed(car.angularVelocity, car'.angularVelocity)
           /\ Decayed(car.driftAngle, car'.driftAngle) ]_vars

\* C15 as amended: on a tick with no key held angularVelocity keeps its sign
\* and shrinks (strictly, unless it is 0); driftAngle does the same on the
\* ticks on which the car is reversing or angularVelocity has reached 0, and
\* is otherwise still fed by the angularVelocity that remains.
C15_AngularDecays ==
    [][ (last'.op = "tick" /\ inputState' = NoInput)
        => /\ Decayed(car.angularVelocity, car'.angularVelocity)
           /\ car.angularVelocity # 0
                  => Abs(car'.angularVelocity) < Abs(car.angularVelocity)
           /\ (car'.isReversing \/ car'.angularVelocity = 0)
                  => /\ Decayed(car.driftAngle, car'.driftAngle)
                     /\ car.driftAngle # 0
                            => Abs(car'.driftAngle) < Abs(car.driftAngle)
           /\ (~car'.isReversing /\ car'.angularVelocity # 0)
                  => car'.driftAngle # SMulDiv(car.driftAngle, 94, 100) ]_vars

\* a tick with no key held on which the car still turned, and the drift
\* angle grew although the angular velocity shrank
C15_Witness ==
    /\ last.op = "tick"
    /\ inputState = NoInput
    /\ Len(replayData) >= 2
    /\ LET prev == replayData[Len(replayData) - 1]
       IN  /\ prev.angularVelocity # 0
           /\ Abs(car.angularVelocity) < Abs(prev.angularVelocity)
           /\ car.angularVelocity # 0
           /\ ~car.isReversing
           /\ Abs(car.driftAngle) > Abs(prev.driftAngle)

(* Claims about the clipping detector *)

\* C16: while no track image has been decoded the detector returns 1.0 on
\* every call. A failed or absent image load never reaches the tick: the
\* load settles with the drift system installed, and from then on every
\* tick gets the multiplier 1.0, the scoring multiplier stays 1.0 and
\* isInClippingZone is never true.  Checked under SpecI.
C16_NoImageNoBonus ==
    /\ last.op = "initSystem" => driftSystem.installed
    /\ (driftSystem.installed /\ ~driftSystem.detector.imageData)
           => /\ ~scoring.isInClippingZone
              /\ scoring.multiplier = 10
              /\ last.op = "tick" => last.multiplier = 10

\* a drift scored on a tick after the track image failed to load
C16_Witness ==
    /\ last.op = "tick"
    /\ driftSystem.installed
    /\ ~driftSystem.detector.trackImage
    /\ scoring.isDrifting
    /\ scoring.currentScore > 0

\* the check points of the last call that fall inside the image
PointsInside ==
    LET img == TrackImages[driftSystem.detector.image]
        pts == getCarCheckPoints(driftSystem.detector,
                   (car.xPos * img.width) \div (effectiveWidth(params) \div 1000),
                   (car.yPos * img.height) \div (effectiveHeight(params) \div 1000),
                   car.width, car.height, car.angle,
                   effectiveWidth(params), effectiveHeight(params))
    IN  { <<i, (pts[i].y \div 1000) * img.width + (pts[i].x \div 1000) + 1>> :
              i \in { j \in 1..Len(pts) :
                          /\ pts[j].x >= 0 /\ pts[j].x < img.width * 1000
                          /\ pts[j].y >= 0 /\ pts[j].y < img.height * 1000 } }

\* those of them whose pixel is within the tolerance of white on each channel
PointsHit ==
    LET img == TrackImages[driftSystem.detector.image]
    IN  { p \in PointsInside :
              \A ch \in {"r", "g", "b"} :
                  img.data[p[2]][ch] \in (255 - 50)..(255 + 50) }

\* C17: with the image decoded, a call returns 2.5 exactly when at least 30%
\* of the check points inside the image are within 50 of white on every
\* channel, and 1.0 otherwise; points outside the image count neither as
\* hits nor as checks, and with all seven outside the result is 1.0.
\* Checked under SpecC.
C17_ThirtyPercentOfInside ==
    (last.op = "update" /\ driftSystem.detector.imageData)
        => /\ last.multiplier =
                  IF /\ PointsInside # {}
                     /\ 10 * Cardinality(PointsHit) >= 3 * Cardinality(PointsInside)
                  THEN 25 ELSE 10
           /\ PointsInside = {} => last.multiplier = 10
           /\ scoring.isInClippingZone = (last.multiplier = 25)

\* a call with some check points off the image, where the hits are at least
\* 30% of the points inside but less than 30% of the seven
C17_Witness ==
    /\ last.op = "update"
    /\ driftSystem.detector.imageData
    /\ last.multiplier = 25
    /\ Cardinality(PointsInside) < 7
    /\ 10 * Cardinality(PointsHit) < 3 * 7

(* Claims about banking and chaining, checked under SpecS *)

\* C18: when a drift ends because the combo countdown reaches zero (a tick
\* with |speed| >= minSpeed ends it), totalScore grows by exactly the whole
\* points of the session's currentScore, and combo, currentScore, multiplier,
\* isDrifting and the recorded direction are reset to 0, 0, 1.0, false and 0.
C18_Banking ==
    [][ ( /\ last'.op = "update"
          /\ Abs(last'.speed) >= minSpeed
          /\ scoring.isDrifting
          /\ ~scoring'.isDrifting )
        => ( /\ scoring'.comboTimer <= 0
             /\ scoring'.totalScore =
                    scoring.totalScore
                        + (scoring.currentScore - (scoring.currentScore % 1000))
             /\ scoring'.combo = 0
             /\ scoring'.currentScore = 0
             /\ scoring'.multiplier = 10
             /\ scoring'.lastDriftDir = 0 ) ]_vars

\* the third call banks a session of one 1/60 s tick: 15.9 points earned,
\* 15 banked
C18_Witness ==
    /\ last.op = "update"
    /\ hist.ticks = 3
    /\ ~scoring.isDrifting
    /\ scoring.duration = 50
    /\ scoring.totalScore = 15000

\* C19: on a tick with |speed| >= minSpeed during a drift, a drift angle
\* below minDriftAngle degrees lowers the countdown by the tick's length in
\* ms and one at or above it restores comboDecayTime; the drift is banked
\* only by a tick below the threshold that brings the countdown to zero.
C19_DecayTiming ==
    [][ ( /\ last'.op = "update"
          /\ Abs(last'.speed) >= minSpeed
          /\ scoring.isDrifting )
        => /\ IF Abs(last'.driftAngle) < minDriftAngle
              THEN \E dt \in DeltaTimes :
                       scoring'.comboTimer = scoring.comboTimer - dt
              ELSE scoring'.comboTimer = comboDecayTime
           /\ ~scoring'.isDrifting
                  => /\ Abs(last'.driftAngle) < minDriftAngle
                     /\ scoring'.comboTimer <= 0 ]_vars

\* C20: on a qualifying tick during a drift, a drift angle whose sign
\* differs from the recorded one raises combo by 1, adds 500 * combo (the
\* new combo) to currentScore on top of the tick's points and records the
\* new sign; with the same sign combo and the recorded sign stay and only
\* the tick's points are added; the tick that starts a session sets combo
\* to 1 and adds only the tick's points.
C20_DirectionChain ==
    [][ ( /\ last'.op = "update"
          /\ Abs(last'.speed) >= minSpeed
          /\ angleDegOf(last'.driftAngle) >= minDriftAngle )
        => LET dir == Sign(last'.driftAngle)
               flip == scoring.isDrifting /\ dir # scoring.lastDriftDir
               before == IF scoring.isDrifting THEN scoring.currentScore ELSE 0
           IN  /\ scoring'.combo = IF ~scoring.isDrifting THEN 1
                                   ELSE IF flip THEN scoring.combo + 1
                                   ELSE scoring.combo
               /\ scoring'.lastDriftDir = dir
               /\ \E dt \in DeltaTimes :
                      scoring'.currentScore =
                          before
                            + (IF flip THEN 500 * 1000 * scoring'.combo ELSE 0)
                            + pointsThisFrame(scoring'.multiplier, scoring'.combo,
                                              angleDegOf(last'.driftAngle), dt) ]_vars

\* the second call reverses the drift direction: combo 2 and at least the
\* flat bonus of 1000 points
C20_Witness ==
    /\ last.op = "update"
    /\ hist.ticks = 2
    /\ scoring.isDrifting
    /\ scoring.combo = 2
    /\ scoring.lastDriftDir = Sign(last.driftAngle)
    /\ scoring.currentScore >= 1000000

(* Claims about replay mode and the recorders *)

\* C21: a tick executed while replaying changes neither the replay buffer,
\* nor the current-run ghost buffer, nor the stored ghost, nor the drift
\* scoring state; the vehicle state it shows is an entry of the buffer.
\* Checked under SpecP.
C21_ReplayBypassesIntegrator ==
    [][ last'.op = "replayTick"
        => /\ UNCHANGED <<replayData, currentRun, ghostRun, scoring>>
           /\ Len(replayData) > 0
                  => \E i \in 1..Len(replayData) : car' = replayData[i] ]_vars

\* a replay tick taken in the middle of a drift that holds points, showing
\* an earlier frame than the live car's
C21_Witness ==
    /\ last.op = "replayTick"
    /\ isReplaying
    /\ scoring.isDrifting
    /\ scoring.currentScore > 0
    /\ Len(replayData) >= 3
    /\ car # replayData[Len(replayData)]

\* the addresses in the array at address arr
Entries(h, arr) == { h.objects[arr][i] : i \in 1..Len(h.objects[arr]) }

\* C22: no step (live tick, replay tick, entering or leaving replay, reset)
\* changes the contents of an object that is an entry of the replay buffer,
\* and none changes the stored GhostRun object, its frames array or the
\* frames in it, whatever happens to the current-run buffer; the car the
\* next live tick writes to is no entry of the replay buffer.  Checked
\* under SpecA.
C22_SnapshotsAreCopies ==
    [][ /\ \A b \in Entries(heap, heap.replayDataRef) :
               heap'.objects[b] = heap.objects[b]
        /\ heap.ghostRunRef # 0
               => LET ghost == heap.objects[heap.ghostRunRef]
                  IN  /\ heap'.objects[heap.ghostRunRef] = ghost
                      /\ heap'.objects[ghost.frames] = heap.objects[ghost.frames]
                      /\ \A f \in Entries(heap, ghost.frames) :
                             heap'.objects[f] = heap.objects[f]
                      /\ heap'.currentRunRef # ghost.frames
        /\ heap'.carRef \notin Entries(heap', heap'.replayDataRef) ]_vars

\* a live tick taken after a replay session and a reset: the car object came
\* out of the replay buffer as a copy and a GhostRun is stored
C22_Witness ==
    /\ last.op = "tick"
    /\ heap.ghostRunRef # 0
    /\ heap.carRef # 1
    /\ Len(replayData) >= 2
    /\ Len(ghostRun.frames) >= 1
    /\ car = replayData[Len(replayData)]

\* C23: a live tick appends the car's pose to the current-run buffer,
\* evicting the oldest sample at 1800; a reset empties the buffer; no other
\* step touches it; and at every tick boundary the replay buffer's length
\* (the ghost frame index) equals the current-run buffer's length, which is
\* at most 1800.  Checked under SpecH.
C23_GhostRecording ==
    [][ LET n == Len(currentRun) IN
        /\ last'.op = "tick"
               => /\ Len(currentRun') = Min(n + 1, 1800)
                  /\ currentRun'[Len(currentRun')] =
                         [x |-> car'.xPos, y |-> car'.yPos, angle |-> car'.angle,
                          driftAngle |-> car'.driftAngle]
                  /\ \A i \in 1..(Len(currentRun') - 1) :
                         currentRun'[i] = currentRun[IF n = 1800 THEN i + 1 ELSE i]
        /\ last'.op = "clear" => currentRun' = << >>
        /\ last'.op \notin {"tick", "clear"} => currentRun' = currentRun
        /\ Len(replayData') = Len(currentRun')
        /\ Len(currentRun') <= 1800 ]_vars

\* a live tick at capacity after a replay session
C23_Witness ==
    /\ last.op = "tick"
    /\ Len(currentRun) = 1800
    /\ hist.ticks > 1800
    /\ replayState.index > 0

(* Claims about steering, drag and resets *)

\* C24: on a live tick that steers without the throttle, the turning step
\* changes angularVelocity by turnFactor scaled by the speed's share of
\* maxSpeed (taken twice), downwards for left and upwards for right while
\* moving forward and the other way round while reversing; at |speed| <= 0.1
\* it changes nothing.  Checked under SpecN.
C24_ReverseInvertsSteering ==
    [][ ( /\ last'.op = "tick"
          /\ ~inputState'.up
          /\ inputState'.left # inputState'.right )
        => LET c1 == accelerate(car, inputState', params)
               change == turn(c1, inputState', params).angularVelocity
                            - c1.angularVelocity
               side == IF inputState'.left THEN -1 ELSE 1
           IN  IF Abs(c1.speed) <= 100
               THEN change = 0
               ELSE /\ Abs(change) =
                          MulDiv(params.turnFactor,
                                 MulDiv(2 * Abs(c1.speed), 1000, params.maxSpeed),
                                 1000)
                    /\ change # 0 => Sign(change) = side * Sign(c1.speed) ]_vars

\* C25: on every live tick, forward or reverse, with or without the e-brake,
\* the drag step leaves |speed| at most |speed * drag|: the drift term only
\* takes speed away.  Checked under SpecV.
C25_DriftTermOnlyBleeds ==
    [][ last'.op = "tick"
        => LET c3 == drift(turn(accelerate(car, inputState', params),
                                inputState', params), params)
               drag == IF inputState'.eBrake THEN params.eBrakeDecay ELSE 980
           IN  Abs(friction(c3, inputState', params).speed)
                  <= Abs(SMulDiv(c3.speed, drag, 1000)) ]_vars

\* C26: after a live tick on which no steering was applied (neither left nor
\* right held, or |speed| <= 0.1 at the turning step), isTurning is false and
\* the velocity vector is the speed along the heading with no turning drag,
\* even when the car steered on an earlier tick.  Checked under SpecD.
C26_TurningIsPerTick ==
    [][ ( /\ last'.op = "tick"
          /\ LET c1 == accelerate(car, inputState', params)
             IN  \/ ~inputState'.left /\ ~inputState'.right
                 \/ Abs(c1.speed) <= 100 )
        => LET heading == car'.angle - car'.driftAngle
           IN  /\ ~car'.isTurning
               /\ car'.xSpeed = SMulDiv(Sin(heading), car'.speed, 1000)
               /\ car'.ySpeed = SMulDiv(Cos(heading), car'.speed, 1000) ]_vars

\* C27: a reset leaves the car at rest: on the first live tick after a reset,
\* read with every key released, angle and driftAngle are still 0 and the
\* position is still the reset position, whatever the car was doing before
\* the reset.  Checked under SpecQ.
C27_AtRestAfterReset ==
    [][ ( /\ last.op = "clear"
          /\ last'.op = "tick"
          /\ inputState' = NoInput )
        => /\ car'.angle = 0
           /\ car'.driftAngle = 0
           /\ car'.xPos = car.xPos
           /\ car'.yPos = car.yPos ]_vars

(* Claims about the keyboard, track loading and the combo counter *)

\* C28: a live tick reads a key's flag as true only while the key is down; in
\* particular a key that was down when replay was entered and went up while
\* replaying reads false on the first live tick after the exit.  Checked
\* under SpecK.
C28_ReleasedKeyReadsFalse ==
    [][ last'.op = "tick"
        => \A k \in ControlKeys : inputState'[k] => k \in hist'.held ]_vars

\* C29: the drift system ref only ever takes the system of the latest run of
\* the initSystem effect, in whatever order the loads settle; and once every
\* load has settled, the ref holds the system created for the latest source.
\* Checked under SpecF.
C29_StaleLoadsDiscarded ==
    [][ LET n == Len(loads'.runs)
            latest == loads'.runs[n]
        IN  /\ loads'.current # loads.current => loads'.current = n
            /\ (\A i \in 1..n : loads'.runs[i].outcome # "pending")
               => /\ loads'.current = n
                  /\ driftSystem'.installed
                  /\ driftSystem'.detector =
                        createDriftSystem(latest.outcome,
                                          urlOf(latest.source)).detector ]_vars

\* two loads were in flight, the later one settled first and was installed,
\* and the superseded one settled last and was dropped
C29_Witness ==
    /\ Len(loads.runs) = 2
    /\ \A i \in 1..2 : loads.runs[i].outcome = "decoded"
    /\ loads.runs[1].isCancelled
    /\ last.op = "initSystem"
    /\ ~last.changed
    /\ loads.current = 2
    /\ driftSystem.detector.image = urlOf(loads.runs[2].source)
    /\ urlOf(loads.runs[1].source) # urlOf(loads.runs[2].source)

\* C30: at every tick boundary, after any sequence of update() and
\* resetTotal() calls, combo is at least 1 exactly when isDrifting is true and
\* 0 exactly when it is false.  Checked under SpecS.
C30_ComboTracksDrifting ==
    /\ scoring.isDrifting <=> scoring.combo >= 1
    /\ ~scoring.isDrifting <=> scoring.combo = 0

\* a drift chained into a second direction, so the counter stands above 1
C30_Witness ==
    /\ last.op = "update"
    /\ scoring.isDrifting
    /\ scoring.combo >= 2

====
